---- MODULE Spec2Model ----
\* A model of fake-board: a Board owning a sequence of Devices (a read-only
\* RomConfig and a read/write Store) and dispatching device_name, device_size,
\* device_get and device_put by device id (src/fake-board/Board.cc).
\*
\* Ids, offsets and cell values are unsigned machine integers on which the code
\* does no arithmetic, only comparisons and copies; they are drawn from small
\* sample sets that contain every boundary the code compares against.
EXTENDS Integers, Sequences, FiniteSets, TLC

\* ---------------------------------------------------------------- bounds
MaxInits    == 2   \* calls of Board::initialize on one Board
MaxPuts     == 2   \* calls of Board::device_put on one Board

\* ------------------------------------------------------ program constants
EPERM  == 1
ENXIO  == 6
ENODEV == 19
EINVAL == 22

NUM_DEVICES     == 2
ROM_MEM_SIZE_   == 5
STORE_MEM_SIZE_ == 10
MAX_VERSION     == 3
ROM_ID          == 0
BETA_ID         == 1

\* ------------------------------------------------------------ model values
Indeterminate == -1   \* a cell of storage that was never assigned
Fault         == -2   \* the call did not return: the process faulted
NoPos         == -1   \* the call did not index the device sequence
NoInit        == -1   \* Board::initialize was not called yet

Values   == {0, 305419896}               \* 0 and 0x12345678 (main.cc)
Prevs    == {305419896}                  \* what the caller's variable holds before
Ids      == 0..(NUM_DEVICES + 1)           \* below, at and above the device count
Offsets  == 0..STORE_MEM_SIZE_            \* every cell, and the first offset past them
Versions == {MAX_VERSION, MAX_VERSION + 1}  \* the last good and the first bad
ErrCodes == {0, EPERM, ENXIO, ENODEV, EINVAL}

VARIABLES
    version_b_,   \* Board::version_b_
    count_,       \* Board::count_
    devices_,     \* Board::devices_, the sequence of owned devices
    last,         \* the last call made on the Board and what it returned
    initLog,      \* positions whose initialize() the last Board::initialize ran
    initErr,      \* what the last Board::initialize returned (NoInit before)
    inits,        \* number of Board::initialize calls made
    puts,         \* number of Board::device_put calls made
    halted        \* the process faulted

vars == <<version_b_, count_, devices_, last, initLog, initErr, inits, puts, halted>>

\* --------------------------------------------------------------- devices
\* std::to_string(int)
to_string(n) == IF n < 0 THEN "-" \o ToString(0 - n) ELSE ToString(n)

\* RomConfig::RomConfig: memory_[i] = i
RomConfig(name) ==
    [kind     |-> "RomConfig",
     name_    |-> name,
     version_ |-> 0,
     memory_  |-> [i \in 0..(ROM_MEM_SIZE_ - 1) |-> i]]

\* Store::Store: memory_ is left unassigned
Store(name, version) ==
    [kind     |-> "Store",
     name_    |-> name \o "." \o to_string(version),
     version_ |-> version,
     memory_  |-> [i \in 0..(STORE_MEM_SIZE_ - 1) |-> Indeterminate]]

RomConfig_initialize(dev) == [err |-> 0, dev |-> dev]

Store_initialize_OffByOne(dev) ==
    IF dev.version_ >= MAX_VERSION
    THEN [err |-> ENXIO, dev |-> dev]
    ELSE [err |-> 0, dev |-> [dev EXCEPT !.memory_ = [i \in DOMAIN @ |-> 0]]]

Store_initialize_NoMemset(dev) ==
    IF dev.version_ > MAX_VERSION
    THEN [err |-> ENXIO, dev |-> dev]
    ELSE [err |-> 0, dev |-> dev]

Store_initialize(dev) ==
    IF dev.version_ > MAX_VERSION
    THEN [err |-> ENXIO, dev |-> dev]
    ELSE [err |-> 0, dev |-> [dev EXCEPT !.memory_ = [i \in DOMAIN @ |-> 0]]]

RomConfig_name(dev) == dev.name_
Store_name(dev)     == dev.name_

RomConfig_size(dev) == ROM_MEM_SIZE_
Store_size(dev)     == STORE_MEM_SIZE_

\* read: the set of possible outcomes [err, out]; prev is *valp before the
\* call.  Reading a cell that was never assigned yields an arbitrary value.
CellValues(c) == IF c = Indeterminate THEN Values ELSE {c}

RomConfig_read(dev, offset, prev) ==
    IF offset >= ROM_MEM_SIZE_
    THEN {[err |-> EINVAL, out |-> prev]}
    ELSE {[err |-> 0, out |-> v] : v \in CellValues(dev.memory_[offset])}

Store_read(dev, offset, prev) ==
    IF offset >= STORE_MEM_SIZE_
    THEN {[err |-> EINVAL, out |-> prev]}
    ELSE {[err |-> 0, out |-> v] : v \in CellValues(dev.memory_[offset])}

\* write: [err, dev]
RomConfig_write_Stores(dev, offset, val) ==
    IF offset >= ROM_MEM_SIZE_
    THEN [err |-> EINVAL, dev |-> dev]
    ELSE [err |-> EPERM, dev |-> [dev EXCEPT !.memory_[offset] = val]]

RomConfig_write_NoError(dev, offset, val) ==
    IF offset >= ROM_MEM_SIZE_
    THEN [err |-> EINVAL, dev |-> dev]
    ELSE [err |-> 0, dev |-> dev]

RomConfig_write_OffByOne(dev, offset, val) ==
    IF offset > ROM_MEM_SIZE_
    THEN [err |-> EINVAL, dev |-> dev]
    ELSE [err |-> EPERM, dev |-> dev]

RomConfig_write(dev, offset, val) ==
    IF offset >= ROM_MEM_SIZE_
    THEN [err |-> EINVAL, dev |-> dev]
    ELSE [err |-> EPERM, dev |-> dev]

Store_write_WrongCell(dev, offset, val) ==
    IF offset >= STORE_MEM_SIZE_
    THEN [err |-> EINVAL, dev |-> dev]
    ELSE [err |-> 0, dev |-> [dev EXCEPT !.memory_[(offset + 1) % STORE_MEM_SIZE_] = val]]

Store_write(dev, offset, val) ==
    IF offset >= STORE_MEM_SIZE_
    THEN [err |-> EINVAL, dev |-> dev]
    ELSE [err |-> 0, dev |-> [dev EXCEPT !.memory_[offset] = val]]

\* virtual dispatch on the dynamic type of the device
Device_initialize(dev) ==
    IF dev.kind = "RomConfig" THEN RomConfig_initialize(dev) ELSE Store_initialize(dev)
Device_name(dev) ==
    IF dev.kind = "RomConfig" THEN RomConfig_name(dev) ELSE Store_name(dev)
Device_size(dev) ==
    IF dev.kind = "RomConfig" THEN RomConfig_size(dev) ELSE Store_size(dev)
Device_read(dev, offset, prev) ==
    IF dev.kind = "RomConfig" THEN RomConfig_read(dev, offset, prev)
                              ELSE Store_read(dev, offset, prev)
Device_write(dev, offset, val) ==
    IF dev.kind = "RomConfig" THEN RomConfig_write(dev, offset, val)
                              ELSE Store_write(dev, offset, val)

\* ------------------------------------------------------------------ board
NoCall ==
    [op |-> "none", id |-> 0, offset |-> 0, val |-> 0, prev |-> 0,
     err |-> 0, out |-> 0, size |-> 0, name |-> "", pos |-> NoPos]

\* the for loop of Board::initialize from position i (1-based) on:
\* [devices, err, log], log being the 0-based positions initialized, in order
RECURSIVE InitLoop_NoBreak(_, _)
InitLoop_NoBreak(devs, i) ==
    IF i > Len(devs)
    THEN [devices |-> devs, err |-> 0, log |-> <<>>]
    ELSE LET r    == Device_initialize(devs[i])
             rest == InitLoop_NoBreak([devs EXCEPT ![i] = r.dev], i + 1)
         IN  [devices |-> rest.devices,
              err     |-> IF i = Len(devs) THEN r.err ELSE rest.err,
              log     |-> <<i - 1>> \o rest.log]

RECURSIVE InitLoop(_, _)
InitLoop(devs, i) ==
    IF i > Len(devs)
    THEN [devices |-> devs, err |-> 0, log |-> <<>>]
    ELSE LET r    == Device_initialize(devs[i])
             done == [devs EXCEPT ![i] = r.dev]
         IN  IF r.err # 0
             THEN [devices |-> done, err |-> r.err, log |-> <<i - 1>>]
             ELSE LET rest == InitLoop(done, i + 1)
                  IN  [rest EXCEPT !.log = <<i - 1>> \o @]

\* the two push_back calls of Board::initialize
PushDevices(devs, version) ==
    Append(Append(devs, RomConfig("Acme ROM")), Store("Beta Memory", version))

\* the id check shared by device_name, device_size, device_get, device_put
IdRejected(id) == id > count_

\* devices_[id] with id >= devices_.size() reads past the end of the vector:
\* undefined behaviour.  The pointer read there is indeterminate, so the call
\* faults, or returns an arbitrary result, or runs on whatever live device the
\* pointer happens to alias.
InRange(id) == id < Len(devices_)

\* Each device_* call: the set of its possible outcomes in the current state.
Board_device_name(id) ==
    IF IdRejected(id)
    THEN {[err |-> ENODEV, pos |-> NoPos, name |-> "", halted |-> FALSE]}
    ELSE IF InRange(id)
    THEN {[err |-> 0, pos |-> id, name |-> Device_name(devices_[id + 1]),
           halted |-> FALSE]}
    ELSE {[err |-> Fault, pos |-> id, name |-> "", halted |-> TRUE]}
         \cup {[err |-> e, pos |-> id, name |-> n, halted |-> FALSE] :
                 e \in ErrCodes,
                 n \in {""} \cup {Device_name(devices_[d]) : d \in 1..Len(devices_)}}

Board_device_size(id, prev) ==
    IF IdRejected(id)
    THEN {[err |-> ENODEV, pos |-> NoPos, size |-> prev, halted |-> FALSE]}
    ELSE IF InRange(id)
    THEN {[err |-> 0, pos |-> id, size |-> Device_size(devices_[id + 1]),
           halted |-> FALSE]}
    ELSE {[err |-> Fault, pos |-> id, size |-> prev, halted |-> TRUE]}
         \cup {[err |-> e, pos |-> id, size |-> n, halted |-> FALSE] :
                 e \in ErrCodes, n \in {prev, ROM_MEM_SIZE_, STORE_MEM_SIZE_}}

Board_device_get(id, offset, prev) ==
    IF IdRejected(id)
    THEN {[err |-> ENODEV, pos |-> NoPos, out |-> prev, halted |-> FALSE]}
    ELSE IF InRange(id)
    THEN {[err |-> r.err, pos |-> id, out |-> r.out, halted |-> FALSE] :
            r \in Device_read(devices_[id + 1], offset, prev)}
    ELSE {[err |-> Fault, pos |-> id, out |-> prev, halted |-> TRUE]}
         \cup {[err |-> e, pos |-> id, out |-> v, halted |-> FALSE] :
                 e \in ErrCodes, v \in Values}

Board_device_put(id, offset, val) ==
    IF IdRejected(id)
    THEN {[err |-> ENODEV, pos |-> NoPos, devices |-> devices_, halted |-> FALSE]}
    ELSE IF InRange(id)
    THEN LET r == Device_write(devices_[id + 1], offset, val)
         IN  {[err |-> r.err, pos |-> id,
               devices |-> [devices_ EXCEPT ![id + 1] = r.dev], halted |-> FALSE]}
    ELSE {[err |-> Fault, pos |-> id, devices |-> devices_, halted |-> TRUE]}
         \cup {[err |-> e, pos |-> id, devices |-> devices_, halted |-> FALSE] :
                 e \in ErrCodes}
         \cup {[err |-> Device_write(devices_[d], offset, val).err, pos |-> id,
                devices |-> [devices_ EXCEPT
                                ![d] = Device_write(devices_[d], offset, val).dev],
                halted |-> FALSE] : d \in 1..Len(devices_)}

\* The caller makes one call at a time: a call is made when the previous one
\* has returned and its result has been taken.
Idle == ~halted /\ last.op = "none"

Init ==
    /\ version_b_ \in Versions
    /\ count_ = 0
    /\ devices_ = <<>>
    /\ last = NoCall
    /\ initLog = <<>>
    /\ initErr = NoInit
    /\ inits = 0
    /\ puts = 0
    /\ halted = FALSE

Board_initialize ==
    /\ Idle
    /\ inits < MaxInits
    /\ LET r == InitLoop(PushDevices(devices_, version_b_), 1)
       IN  /\ count_' = NUM_DEVICES
           /\ devices_' = r.devices
           /\ initLog' = r.log
           /\ initErr' = r.err
           /\ last' = [NoCall EXCEPT !.op = "initialize", !.err = r.err]
    /\ inits' = inits + 1
    /\ UNCHANGED <<version_b_, puts, halted>>

Call_device_name(id) ==
    /\ Idle
    /\ \E r \in Board_device_name(id) :
         /\ last' = [NoCall EXCEPT !.op = "device_name", !.id = id, !.err = r.err,
                                   !.pos = r.pos, !.name = r.name]
         /\ halted' = r.halted
    /\ UNCHANGED <<version_b_, count_, devices_, initLog, initErr, inits, puts>>

Call_device_size(id, prev) ==
    /\ Idle
    /\ \E r \in Board_device_size(id, prev) :
         /\ last' = [NoCall EXCEPT !.op = "device_size", !.id = id, !.err = r.err,
                                   !.pos = r.pos, !.size = r.size]
         /\ halted' = r.halted
    /\ UNCHANGED <<version_b_, count_, devices_, initLog, initErr, inits, puts>>

Call_device_get(id, offset, prev) ==
    /\ Idle
    /\ \E r \in Board_device_get(id, offset, prev) :
         /\ last' = [NoCall EXCEPT !.op = "device_get", !.id = id,
                                   !.offset = offset, !.prev = prev,
                                   !.err = r.err, !.pos = r.pos, !.out = r.out]
         /\ halted' = r.halted
    /\ UNCHANGED <<version_b_, count_, devices_, initLog, initErr, inits, puts>>

Call_device_put(id, offset, val) ==
    /\ Idle
    /\ puts < MaxPuts
    /\ \E r \in Board_device_put(id, offset, val) :
         /\ last' = [NoCall EXCEPT !.op = "device_put", !.id = id,
                                   !.offset = offset, !.val = val,
                                   !.err = r.err, !.pos = r.pos]
         /\ devices_' = r.devices
         /\ halted' = r.halted
    /\ puts' = puts + 1
    /\ UNCHANGED <<version_b_, count_, initLog, initErr, inits>>

\* The caller has looked at what the call returned and goes on to its next call.
Caller_continue ==
    /\ ~halted
    /\ last.op # "none"
    /\ last' = NoCall
    /\ UNCHANGED <<version_b_, count_, devices_, initLog, initErr, inits, puts, halted>>

Next ==
    \/ Caller_continue
    \/ Board_initialize
    \/ \E id \in Ids : Call_device_name(id)
    \/ \E id \in Ids : Call_device_size(id, 0)
    \/ \E id \in Ids, offset \in Offsets, prev \in Prevs : Call_device_get(id, offset, prev)
    \/ \E id \in Ids, offset \in Offsets, val \in Values : Call_device_put(id, offset, val)

Spec == Init /\ [][Next]_vars

\* ------------------------------------------------------------ properties
DeviceOps == {"device_name", "device_size", "device_get", "device_put"}

RomCells == [i \in 0..(ROM_MEM_SIZE_ - 1) |-> i]

\* C1: on an initialized Board every device_name, device_size, device_get and
\* device_put with an id >= the device count (2) returns ENODEV, whatever the
\* offset and the value.
C1_BadIdIsNoSuchDevice ==
    (initErr = 0 /\ last.op \in DeviceOps /\ last.id >= NUM_DEVICES)
        => last.err = ENODEV

\* C2: after a successful initialize, device_put(1, offset, v) with offset < 10
\* returns 0, and a device_get(1, offset) made right after it returns 0 and
\* yields v, whatever the caller's variable held.
C2_PutThenGet ==
    (initErr = 0 /\ last.op = "device_put" /\ last.id = BETA_ID
                 /\ last.offset < STORE_MEM_SIZE_)
        => /\ last.err = 0
           /\ \A prev \in Values :
                Board_device_get(BETA_ID, last.offset, prev)
                    = {[err |-> 0, pos |-> BETA_ID, out |-> last.val, halted |-> FALSE]}

C2_Witness ==
    /\ initErr = 0
    /\ last.op = "device_put" /\ last.id = BETA_ID /\ last.err = 0
    /\ last.offset = STORE_MEM_SIZE_ - 1
    /\ last.val # 0
    /\ puts = MaxPuts

\* C3: the storage of the read-only device is never changed: in every state
\* cell i of every RomConfig holds i, and once the Board is initialized
\* device_get(0, i) returns 0 and yields i, for i in 0..4.
C3_RomNeverMutated ==
    /\ \A d \in 1..Len(devices_) :
         devices_[d].kind = "RomConfig" => devices_[d].memory_ = RomCells
    /\ inits >= 1 =>
         \A i \in 0..(ROM_MEM_SIZE_ - 1), prev \in Values :
            Board_device_get(ROM_ID, i, prev)
                = {[err |-> 0, pos |-> ROM_ID, out |-> i, halted |-> FALSE]}

C3_Witness ==
    /\ last.op = "device_put" /\ last.id = ROM_ID
    /\ last.offset < ROM_MEM_SIZE_ /\ last.val # last.offset
    /\ last.err # Fault
    /\ puts = MaxPuts

\* C4: once initialize has been called, every device_put to the read-only
\* device (id 0) with offset < 5 returns EPERM, whatever the value.
C4_RomPutIsPermissionDenied ==
    /\ (inits >= 1 /\ last.op = "device_put" /\ last.id = ROM_ID
                   /\ last.offset < ROM_MEM_SIZE_)
          => last.err = EPERM
    /\ inits >= 1 =>
          \A offset \in 0..(ROM_MEM_SIZE_ - 1), val \in Values :
             \A r \in Board_device_put(ROM_ID, offset, val) : r.err = EPERM

C4_Witness ==
    /\ inits >= 1
    /\ last.op = "device_put" /\ last.id = ROM_ID
    /\ last.offset = ROM_MEM_SIZE_ - 1
    /\ last.err = EPERM

\* the device sizes the specification states
SizeOf(id) == IF id = ROM_ID THEN 5 ELSE 10

\* C5: for a valid id (0 or 1) on an initialized Board, every device_get and
\* device_put with offset >= the size of that device (5 for id 0, 10 for id 1)
\* returns EINVAL; an out-of-range write to the read-only device too.
C5_OffsetOutOfRangeIsInvalid ==
    /\ inits >= 1 =>
          \A id \in {ROM_ID, BETA_ID} :
             Board_device_size(id, 0)
                = {[err |-> 0, pos |-> id, size |-> SizeOf(id), halted |-> FALSE]}
    /\ (inits >= 1 /\ last.op \in {"device_get", "device_put"}
                   /\ last.id \in {ROM_ID, BETA_ID}
                   /\ last.offset >= SizeOf(last.id))
          => last.err = EINVAL

C5_Witness ==
    /\ inits >= 1
    /\ last.op = "device_put" /\ last.id = ROM_ID
    /\ last.offset = ROM_MEM_SIZE_
    /\ last.err = EINVAL

\* C6: Board::initialize returns ENXIO when the Board was constructed with
\* version > 3 and 0 when version <= 3, on every call.
C6_InitializeResult ==
    /\ last.op = "initialize" =>
          last.err = (IF version_b_ > 3 THEN ENXIO ELSE 0)
    /\ inits >= 1 => initErr = (IF version_b_ > 3 THEN ENXIO ELSE 0)

C6_Witness ==
    /\ last.op = "initialize" /\ last.err = ENXIO
    /\ version_b_ = MAX_VERSION + 1

\* C7: after a successful initialize and before any device_put,
\* device_get(1, offset) returns 0 and yields 0 for every offset < 10, whatever
\* the caller's variable held before.
C7_StoreReadsZeroAfterInit ==
    /\ (initErr = 0 /\ puts = 0 /\ last.op = "device_get" /\ last.id = BETA_ID
                    /\ last.offset < STORE_MEM_SIZE_)
          => (last.err = 0 /\ last.out = 0)
    /\ (initErr = 0 /\ puts = 0) =>
          \A offset \in 0..(STORE_MEM_SIZE_ - 1), prev \in Values :
             Board_device_get(BETA_ID, offset, prev)
                = {[err |-> 0, pos |-> BETA_ID, out |-> 0, halted |-> FALSE]}

C7_Witness ==
    /\ initErr = 0 /\ puts = 0
    /\ last.op = "device_get" /\ last.id = BETA_ID
    /\ last.offset = STORE_MEM_SIZE_ - 1
    /\ last.prev # 0 /\ last.out = 0 /\ last.err = 0

\* C8: after Board::initialize has returned, however often it was called, the
\* device count equals the length of the device sequence, which holds exactly
\* two devices: the read-only device at id 0, the read/write device at id 1.
C8_TwoDevicesAfterInitialize ==
    inits >= 1 =>
        /\ count_ = Len(devices_)
        /\ Len(devices_) = 2
        /\ devices_[1].kind = "RomConfig"
        /\ devices_[2].kind = "Store"

\* C9: Board::initialize initializes the devices in sequence order, the
\* read-only device before the read/write device, and stops at the first
\* device whose initialize fails: it returns that device's error and
\* initializes no device after it; without a failure it initializes them all
\* and returns 0.
C9_InitializeInOrderUntilFailure ==
    inits >= 1 =>
        LET k == Len(initLog)
        IN  /\ k >= 1 /\ k <= Len(devices_)
            /\ \A j \in 1..k : initLog[j] = j - 1
            /\ k >= 2 => (devices_[1].kind = "RomConfig" /\ devices_[2].kind = "Store")
            /\ \A j \in 1..(k - 1) : Device_initialize(devices_[j]).err = 0
            /\ Device_initialize(devices_[k]).err = initErr
            /\ initErr = 0 => k = Len(devices_)
            /\ initErr # 0 =>
                 \A j \in (k + 1)..Len(devices_) :
                    devices_[j].kind = "Store" =>
                       \A c \in DOMAIN devices_[j].memory_ :
                          devices_[j].memory_[c] = Indeterminate

C9_Witness ==
    /\ last.op = "initialize" /\ last.err = ENXIO
    /\ Len(devices_) = 4
    /\ initLog = <<0, 1>>

\* C10: every device_* call that gets past the id check indexes the device
\* sequence at a position strictly below its length, on a Board that was not
\* initialized too.
C10_IndexWithinSequence ==
    (last.op \in DeviceOps /\ last.pos # NoPos) => last.pos < Len(devices_)

\* C11: the only change a device_name, device_size, device_get or device_put
\* call makes to the Board and its devices is that a device_put returning 0
\* sets the addressed cell of the addressed read/write device to the given
\* value; every other cell, the other device, the device count and the device
\* sequence stay as they were, and a call returning an error changes nothing.
C11_FrameOfDeviceCalls ==
    [][ (last.op = "none" /\ last'.op \in DeviceOps) =>
          /\ count_' = count_
          /\ version_b_' = version_b_
          /\ IF last'.op = "device_put" /\ last'.err = 0 /\ last'.id < Len(devices_)
             THEN /\ devices_[last'.id + 1].kind = "Store"
                  /\ last'.offset \in DOMAIN devices_[last'.id + 1].memory_
                  /\ devices_' = [devices_ EXCEPT
                                    ![last'.id + 1].memory_[last'.offset] = last'.val]
             ELSE devices_' = devices_ ]_vars

====
